---------------------------- MODULE Spec2Model ----------------------------
(***************************************************************************)
(* Title parsing and candidate ranking of the calibre comicvine metadata   *)
(* source (utils.py): normalised_title, score_title and keygen.            *)
(*                                                                         *)
(* Strings are sequences of one-character strings.  Python values whose    *)
(* type matters to a comparison (None, int, str) are tagged records and    *)
(* are compared with PyEq / PyNe, which follow Python 2: values of         *)
(* different types are never equal.                                        *)
(***************************************************************************)
EXTENDS Integers, Sequences, FiniteSets, TLC

VARIABLES pc, shape, title, issue_number, title_tokens, metadata, authors,
          identifiers, similarity, score, candidates, keys, ranked

vars == <<pc, shape, title, issue_number, title_tokens, metadata, authors,
          identifiers, similarity, score, candidates, keys, ranked>>

(***************************************************************************)
(* Bounds of the model.                                                    *)
(***************************************************************************)
MaxWords == 3
MaxTokens == 2
MaxAuthors == 2
MaxCands == 2

(***************************************************************************)
(* Python values.                                                          *)
(***************************************************************************)
None == [type |-> "NoneType", v |-> <<>>]
PyStr(s) == [type |-> "str", v |-> s]
PyInt(n) == [type |-> "int", v |-> n]
PyList(l) == [type |-> "list", v |-> l]
PyDict(d) == [type |-> "dict", v |-> d]
PyDate(year) == [type |-> "date", v |-> year]

PyEq(a, b) == a.type = b.type /\ a.v = b.v
PyNe(a, b) == ~PyEq(a, b)

\* Truth value of a Python object: None, "", [] and {} are false.
Truthy(x) ==
  CASE x.type = "NoneType" -> FALSE
    [] x.type = "int" -> x.v # 0
    [] x.type = "dict" -> DOMAIN x.v # {}
    [] x.type = "date" -> TRUE
    [] OTHER -> Len(x.v) > 0

\* The outcome of a call: a returned value or a raised exception.
Return(n) == [exc |-> "", value |-> n]
Raise(e) == [exc |-> e, value |-> 0]

(***************************************************************************)
(* Characters and strings.                                                 *)
(***************************************************************************)
DigitChars == <<"0", "1", "2", "3", "4", "5", "6", "7", "8", "9">>
UpperChars == <<"A", "B", "C", "D", "E", "F", "G", "H", "I", "J", "K", "L", "M",
                "N", "O", "P", "Q", "R", "S", "T", "U", "V", "W", "X", "Y", "Z">>
LowerChars == <<"a", "b", "c", "d", "e", "f", "g", "h", "i", "j", "k", "l", "m",
                "n", "o", "p", "q", "r", "s", "t", "u", "v", "w", "x", "y", "z">>

Range(f) == {f[i] : i \in DOMAIN f}

IsDigitChar(c) == c \in Range(DigitChars)
\* \w of the re module
IsWordChar(c) == c \in Range(DigitChars) \cup Range(UpperChars) \cup Range(LowerChars) \cup {"_"}

DigitVal(c) == (CHOOSE i \in DOMAIN DigitChars : DigitChars[i] = c) - 1

LowerChar(c) ==
  IF c \in Range(UpperChars)
    THEN LowerChars[CHOOSE i \in DOMAIN UpperChars : UpperChars[i] = c]
    ELSE c

\* str.lower()
Lower(s) == [i \in DOMAIN s |-> LowerChar(s[i])]

\* str.isdigit()
IsDigit(s) == Len(s) > 0 /\ \A i \in DOMAIN s : IsDigitChar(s[i])

\* int(s) of an all-digit string
RECURSIVE ToInt(_)
ToInt(s) ==
  IF Len(s) = 0 THEN 0
  ELSE 10 * ToInt(SubSeq(s, 1, Len(s) - 1)) + DigitVal(s[Len(s)])

\* str(n) of a non-negative integer
RECURSIVE ToStr(_)
ToStr(n) ==
  IF n < 10 THEN <<DigitChars[n + 1]>>
  ELSE ToStr(n \div 10) \o <<DigitChars[(n % 10) + 1]>>

\* a in b, for strings
IsSubstr(a, b) ==
  \E i \in 0..(Len(b) - Len(a)) : SubSeq(b, i + 1, i + Len(a)) = a

\* s.replace(c, '')
RECURSIVE Remove(_, _)
Remove(s, c) ==
  IF Len(s) = 0 THEN <<>>
  ELSE (IF Head(s) = c THEN <<>> ELSE <<Head(s)>>) \o Remove(Tail(s), c)

\* s.strip(chars)
RECURSIVE LStrip(_, _)
LStrip(s, chars) ==
  IF Len(s) > 0 /\ Head(s) \in chars THEN LStrip(Tail(s), chars) ELSE s
RECURSIVE RStrip(_, _)
RStrip(s, chars) ==
  IF Len(s) > 0 /\ s[Len(s)] \in chars
    THEN RStrip(SubSeq(s, 1, Len(s) - 1), chars) ELSE s
Strip(s, chars) == RStrip(LStrip(s, chars), chars)

Abs(n) == IF n < 0 THEN -n ELSE n

(***************************************************************************)
(* query.get_title_tokens: the host framework's title tokenisation.  It    *)
(* drops a parenthesised four-digit year, turns punctuation into blanks,   *)
(* splits at blanks and leaves out the joiners.  A '#' stays in its token. *)
(***************************************************************************)
Blank == " "
Punctuation == {":", ",", ";", "!", "(", ")", "."}
Joiners == {<<"a">>, <<"a", "n", "d">>, <<"t", "h", "e">>, <<"&">>}

\* re.search(r'\((\d{4})\)'): s holds "(dddd)" at position i
YearAt(s, i) ==
  /\ i + 5 <= Len(s)
  /\ s[i] = "("
  /\ \A k \in 1..4 : IsDigitChar(s[i + k])
  /\ s[i + 5] = ")"

RECURSIVE DropYears(_, _)
DropYears(s, i) ==
  IF i > Len(s) THEN <<>>
  ELSE IF YearAt(s, i) THEN DropYears(s, i + 6)
  ELSE <<s[i]>> \o DropYears(s, i + 1)

BlankPunctuation(s) == [i \in DOMAIN s |-> IF s[i] \in Punctuation THEN Blank ELSE s[i]]

\* str.split(): the maximal runs of non-blank characters
RECURSIVE Split(_, _)
Split(s, word) ==
  IF Len(s) = 0 THEN (IF Len(word) > 0 THEN <<word>> ELSE <<>>)
  ELSE IF Head(s) = Blank
    THEN (IF Len(word) > 0 THEN <<word>> ELSE <<>>) \o Split(Tail(s), <<>>)
  ELSE Split(Tail(s), Append(word, Head(s)))

RECURSIVE DropJoiners(_)
DropJoiners(tokens) ==
  IF Len(tokens) = 0 THEN <<>>
  ELSE (IF Lower(Head(tokens)) \in Joiners THEN <<>> ELSE <<Head(tokens)>>)
         \o DropJoiners(Tail(tokens))

get_title_tokens(s) == DropJoiners(Split(BlankPunctuation(DropYears(s, 1)), <<>>))

(***************************************************************************)
(* normalised_title                                                        *)
(***************************************************************************)
\* strip_abbrev(match): the replacement is made from match.string, the whole
\* string that was searched
strip_abbrev(match) == Remove(match.string, ".")

\* abbrev = (?i)((?:(?:\w).){3,}): the number of groups "a word character and
\* any character" that follow one another from position i
RECURSIVE AbbrevGroups(_, _)
AbbrevGroups(s, i) ==
  IF i + 1 <= Len(s) /\ IsWordChar(s[i]) THEN 1 + AbbrevGroups(s, i + 2) ELSE 0

\* abbrev.sub(strip_abbrev, s): the leftmost non-overlapping matches, each
\* as long as it can be, are replaced
RECURSIVE AbbrevSub(_, _)
AbbrevSub(s, i) ==
  IF i > Len(s) THEN <<>>
  ELSE LET n == AbbrevGroups(s, i) IN
    IF n >= 3
      THEN strip_abbrev([string |-> s, start |-> i, end |-> i + 2 * n])
             \o AbbrevSub(s, i + 2 * n)
      ELSE <<s[i]>> \o AbbrevSub(s, i + 1)

\* volume = ^(?i)(v|vol)#?\d+$
VolumeRest(r) == IsDigit(IF Len(r) > 0 /\ Head(r) = "#" THEN Tail(r) ELSE r)
VolumeMatch(token) ==
  LET t == Lower(token) IN
    \/ Len(t) >= 1 /\ t[1] = "v" /\ VolumeRest(Tail(t))
    \/ Len(t) >= 3 /\ SubSeq(t, 1, 3) = <<"v", "o", "l">>
         /\ VolumeRest(SubSeq(t, 4, Len(t)))

\* the loop over the tokens, from token i on
RECURSIVE TitleLoop(_, _, _)
TitleLoop(tokens, i, acc) ==
  IF i > Len(tokens) THEN [issue_number |-> None, title_tokens |-> acc]
  ELSE IF VolumeMatch(tokens[i]) THEN TitleLoop(tokens, i + 1, acc)
  ELSE LET token == IF Len(tokens[i]) > 0 /\ Head(tokens[i]) = "#"
                      THEN Strip(tokens[i], {"#", ":"}) ELSE tokens[i]
       IN IF IsDigit(token)
            THEN [issue_number |-> PyInt(ToInt(token)), title_tokens |-> acc]
            ELSE TitleLoop(tokens, i + 1, Append(acc, Lower(token)))

normalised_title(t) == TitleLoop(get_title_tokens(AbbrevSub(t, 1)), 1, <<>>)

(***************************************************************************)
(* The titles handed to normalised_title: up to MaxWords words, then       *)
(* possibly an issue number "#N", then possibly a sub-title.               *)
(***************************************************************************)
W_Saga == <<"S", "a", "g", "a">>
W_Spawn == <<"S", "p", "a", "w", "n">>
W_Batman == <<"B", "a", "t", "m", "a", "n", ":">>
W_Year == <<"Y", "e", "a", "r">>
W_One == <<"O", "n", "e">>
W_X == <<"X">>
W_20 == <<"2", "0">>
W_v2 == <<"v", "2">>
W_The == <<"T", "h", "e">>
W_USA == <<"U", ".", "S", ".", "A", ".">>
W_Sub == <<"S", "u", "b">>

PlainWords == {W_Saga, W_Spawn, W_Year, W_One, W_X}
Words == PlainWords \cup {W_Batman, W_20, W_v2, W_The, W_USA}
IssueMarks == {<<>>, <<"#", "3">>, <<"#", "5">>, <<"#", "1", "2", ":">>}
SubTitles == {<<>>, W_Sub}

SeqsUpTo(S, n) == UNION {[1..k -> S] : k \in 0..n}

RECURSIVE Join(_)
Join(parts) ==
  IF Len(parts) = 0 THEN <<>>
  ELSE IF Len(parts) = 1 THEN Head(parts)
  ELSE IF Len(Head(parts)) = 0 THEN Join(Tail(parts))
  ELSE IF Len(Join(Tail(parts))) = 0 THEN Head(parts)
  ELSE Head(parts) \o <<Blank>> \o Join(Tail(parts))

TitleOf(sh) == Join(<<Join(sh.words), sh.issue, sh.subtitle>>)

Shapes == [words : SeqsUpTo(Words, MaxWords), issue : IssueMarks, subtitle : SubTitles]

NoCandidate == [series |-> <<>>, series_index |-> <<>>, pubdate |-> None,
                authors |-> <<>>, comicvine |-> None]

InitParse ==
  /\ pc = "parse"
  /\ shape \in Shapes
  /\ title = PyStr(TitleOf(shape))
  /\ issue_number = None
  /\ title_tokens = None
  /\ metadata = NoCandidate
  /\ authors = None
  /\ identifiers = None
  /\ similarity = None
  /\ score = Return(0)
  /\ candidates = <<>>
  /\ keys = <<>>
  /\ ranked = <<>>

\* (issue_number, title_tokens) = normalised_title(query, title)
NormalisedTitle ==
  /\ pc = "parse"
  /\ LET r == normalised_title(title.v) IN
       /\ issue_number' = r.issue_number
       /\ title_tokens' = PyList(r.title_tokens)
  /\ pc' = "parsed"
  /\ UNCHANGED <<shape, title, metadata, authors, identifiers, similarity,
                 score, candidates, keys, ranked>>

NextParse == NormalisedTitle

SpecParse == InitParse /\ [][NextParse]_vars

(***************************************************************************)
(* score_title                                                             *)
(***************************************************************************)
\* match_year.search(title): the position of the first "(dddd)", 0 if none
RECURSIVE YearSearch(_, _)
YearSearch(s, i) ==
  IF i > Len(s) THEN 0
  ELSE IF YearAt(s, i) THEN i
  ELSE YearSearch(s, i + 1)

\* volume = '%s #%s' % (metadata.series.lower(), metadata.series_index)
VolumeOf(md) == Lower(md.series) \o <<" ", "#">> \o md.series_index.v

\* TokenStep with the test of the token inverted: 10 is added for a token
\* that is in the volume label.
TokenStep_PenaltyWhenPresent(md, t, issue, token, sim, sc) ==
  LET volume == Lower(md.series) \o <<" ", "#">> \o md.series_index.v
      s1 == IF IsSubstr(token, volume) THEN sc + 10 ELSE sc
      s2 == IF sim.type = "int" THEN s1 + (100 - sim.v) ELSE s1
      s3 == IF PyNe(md.series_index, issue) THEN s2 + 20 ELSE s2
      s4 == IF ~IsSubstr(md.series_index.v, t) THEN s3 + 10 ELSE s3
  IN s4

\* TokenStep with the last test made on the reference's issue number instead
\* of the candidate's series_index.
TokenStep_IssueNumberInTitle(md, t, issue, token, sim, sc) ==
  LET volume == Lower(md.series) \o <<" ", "#">> \o md.series_index.v
      s1 == IF ~IsSubstr(token, volume) THEN sc + 10 ELSE sc
      s2 == IF sim.type = "int" THEN s1 + (100 - sim.v) ELSE s1
      s3 == IF PyNe(md.series_index, issue) THEN s2 + 20 ELSE s2
      s4 == IF issue.type = "int" /\ IsSubstr(ToStr(issue.v), t) THEN s3 ELSE s3 + 10
  IN s4

\* the body of the loop for one token
TokenStep(md, t, issue, token, sim, sc) ==
  LET volume == VolumeOf(md)
      s1 == IF ~IsSubstr(token, volume) THEN sc + 10 ELSE sc
      \* Levenshtein.ratio; a NameError when the module is missing
      s2 == IF sim.type = "int" THEN s1 + (100 - sim.v) ELSE s1
      s3 == IF PyNe(md.series_index, issue) THEN s2 + 20 ELSE s2
      s4 == IF ~IsSubstr(md.series_index.v, t) THEN s3 + 10 ELSE s3
  IN s4

RECURSIVE ScoreLoop(_, _, _, _, _, _, _)
ScoreLoop(md, t, issue, tokens, sim, i, sc) ==
  IF i > Len(tokens) THEN sc
  ELSE ScoreLoop(md, t, issue, tokens, sim, i + 1,
                 TokenStep(md, t, issue, tokens[i], sim, sc))

\* score_title without the test of metadata.pubdate: the year of a missing
\* pubdate is read.
score_title_NoPubdateTest(md, t, issue, tokens, sim) ==
  IF t.type # "str" THEN Raise("TypeError")
  ELSE IF YearSearch(t.v, 1) > 0 /\ md.pubdate.type # "date" THEN Raise("AttributeError")
  ELSE LET year == YearSearch(t.v, 1)
           s1 == IF year > 0
                   THEN Abs(md.pubdate.v - ToInt(SubSeq(t.v, year + 1, year + 4)))
                   ELSE 0
           s2 == s1 + Abs(Len(VolumeOf(md)) - Len(t.v))
       IN IF tokens.type # "list" THEN Raise("TypeError")
          ELSE Return(ScoreLoop(md, t.v, issue, tokens.v, sim, 1, s2))

score_title(md, t, issue, tokens, sim) ==
  IF t.type # "str" THEN Raise("TypeError")
  ELSE LET volume == VolumeOf(md)
           year == YearSearch(t.v, 1)
           s1 == IF year > 0 /\ Truthy(md.pubdate)
                   THEN Abs(md.pubdate.v - ToInt(SubSeq(t.v, year + 1, year + 4)))
                   ELSE 0
           s2 == s1 + Abs(Len(volume) - Len(t.v))
       IN IF tokens.type # "list" THEN Raise("TypeError")
          ELSE Return(ScoreLoop(md, t.v, issue, tokens.v, sim, 1, s2))

(***************************************************************************)
(* keygen                                                                  *)
(***************************************************************************)
\* IdentifierMatch reading another key of the identifiers.
IdentifierMatch_WrongKey(md, ids) ==
  /\ Truthy(ids)
  /\ "isbn" \in DOMAIN ids.v
  /\ PyEq(md.comicvine, PyStr(ids.v["isbn"]))

\* metadata.get_identifier('comicvine') == identifiers['comicvine'], with the
\* KeyError of a missing key caught
IdentifierMatch(md, ids) ==
  /\ Truthy(ids)
  /\ "comicvine" \in DOMAIN ids.v
  /\ PyEq(md.comicvine, PyStr(ids.v["comicvine"]))

\* AuthorLoop giving credit for a name that is part of a candidate author's.
RECURSIVE AuthorLoop_Partial(_, _, _, _)
AuthorLoop_Partial(md, auth, i, sc) ==
  IF i > Len(auth) THEN sc
  ELSE AuthorLoop_Partial(md, auth, i + 1,
         IF \E k \in DOMAIN md.authors : IsSubstr(auth[i], md.authors[k])
           THEN sc ELSE sc + 10)

RECURSIVE AuthorLoop(_, _, _, _)
AuthorLoop(md, auth, i, sc) ==
  IF i > Len(auth) THEN sc
  ELSE AuthorLoop(md, auth, i + 1,
                  IF auth[i] \notin Range(md.authors) THEN sc + 10 ELSE sc)

\* keygen without the identifier rule.
keygen_NoIdentifierRule(md, t, auth, ids, issue, tokens, sim) ==
  LET st == IF Truthy(t) THEN score_title(md, t, issue, tokens, sim)
            ELSE Return(0)
  IN IF st.exc # "" THEN st
     ELSE Return(IF Truthy(auth) THEN AuthorLoop(md, auth.v, 1, st.value)
                 ELSE st.value)

keygen(md, t, auth, ids, issue, tokens, sim) ==
  IF IdentifierMatch(md, ids) THEN Return(0)
  ELSE LET st == IF Truthy(t) THEN score_title(md, t, issue, tokens, sim)
                 ELSE Return(0)
       IN IF st.exc # "" THEN st
          ELSE Return(IF Truthy(auth) THEN AuthorLoop(md, auth.v, 1, st.value)
                      ELSE st.value)

(***************************************************************************)
(* Calls of score_title: candidates as build_meta makes them, and every    *)
(* combination of the optional arguments.                                  *)
(***************************************************************************)
T_Saga3 == W_Saga \o <<" ", "#", "3">>
T_Saga3Year == T_Saga3 \o <<" ", "(", "2", "0", "1", "2", ")">>
T_3x == <<"#", "3", " ", "x">>
K_saga == <<"s", "a", "g", "a">>
K_x == <<"x">>
A_Al == <<"A", "l">>
A_AlB == <<"A", "l", " ", "B">>

ScoreCandidates ==
  [series : {W_Saga, W_Spawn}, series_index : {PyStr(ToStr(3)), PyStr(ToStr(4))},
   pubdate : {None, PyDate(2012), PyDate(2015)},
   authors : {<<>>}, comicvine : {None}]
ScoreTitles == {None, PyStr(T_Saga3), PyStr(T_Saga3Year), PyStr(W_Saga), PyStr(T_3x)}
IssueNumbers == {None, PyInt(3), PyInt(4)}
TokenLists == SeqsUpTo({K_saga, K_x}, MaxTokens)
Similarities == {None, PyInt(100), PyInt(87)}

InitScore ==
  /\ pc = "call"
  /\ shape = [words |-> <<>>, issue |-> <<>>, subtitle |-> <<>>]
  /\ title \in ScoreTitles
  /\ issue_number \in IssueNumbers
  /\ title_tokens \in {None} \cup {PyList(l) : l \in TokenLists}
  /\ metadata \in ScoreCandidates
  /\ authors = None
  /\ identifiers = None
  /\ similarity \in Similarities
  /\ score = Return(0)
  /\ candidates = <<>>
  /\ keys = <<>>
  /\ ranked = <<>>

\* score = score_title(metadata, title, issue_number, title_tokens)
ScoreTitle ==
  /\ pc = "call"
  /\ score' = score_title(metadata, title, issue_number, title_tokens, similarity)
  /\ pc' = "scored"
  /\ UNCHANGED <<shape, title, issue_number, title_tokens, metadata, authors,
                 identifiers, similarity, candidates, keys, ranked>>

NextScore == ScoreTitle

SpecScore == InitScore /\ [][NextScore]_vars

(***************************************************************************)
(* Calls of keygen.                                                        *)
(***************************************************************************)
ID_1 == <<"4", "0", "1">>
ID_2 == <<"4", "0", "2">>
ISBN == <<"9", "7", "8">>

NoIdentifiers == PyDict([k \in {} |-> <<>>])
IdentifierMaps ==
  {None, NoIdentifiers, PyDict([isbn |-> ISBN]),
   PyDict([comicvine |-> ID_1]), PyDict([comicvine |-> ID_2, isbn |-> ISBN])}

KeygenCandidates ==
  [series : {W_Saga}, series_index : {PyStr(ToStr(3)), PyStr(ToStr(4))},
   pubdate : {None, PyDate(2015)},
   authors : {<<A_AlB>>, <<A_Al, A_AlB>>},
   comicvine : {None, PyStr(ID_1), PyStr(ID_2)}]
KeygenTitles == {None, PyStr(<<>>), PyStr(T_Saga3Year)}
AuthorLists == SeqsUpTo({A_Al, A_AlB}, MaxAuthors)

InitKeygen ==
  /\ pc = "call"
  /\ shape = [words |-> <<>>, issue |-> <<>>, subtitle |-> <<>>]
  /\ title \in KeygenTitles
  /\ issue_number \in {None, PyInt(3)}
  /\ title_tokens \in {None} \cup {PyList(l) : l \in SeqsUpTo({K_saga}, MaxTokens)}
  /\ metadata \in KeygenCandidates
  /\ authors \in {None} \cup {PyList(l) : l \in AuthorLists}
  /\ identifiers \in IdentifierMaps
  /\ similarity \in {None, PyInt(87)}
  /\ score = Return(0)
  /\ candidates = <<>>
  /\ keys = <<>>
  /\ ranked = <<>>

\* score = keygen(metadata, title, authors, identifiers, issue_number=...,
\*                title_tokens=...)
Keygen ==
  /\ pc = "call"
  /\ score' = keygen(metadata, title, authors, identifiers, issue_number,
                     title_tokens, similarity)
  /\ pc' = "keyed"
  /\ UNCHANGED <<shape, title, issue_number, title_tokens, metadata, authors,
                 identifiers, similarity, candidates, keys, ranked>>

NextKeygen == Keygen

SpecKeygen == InitKeygen /\ [][NextKeygen]_vars

(***************************************************************************)
(* Ranking: the title is parsed, keygen gives every candidate of the       *)
(* catalog's list its key, and the caller sorts the list by the keys with  *)
(* a stable ascending sort.                                                *)
(***************************************************************************)
RankCandidates ==
  [series : {W_Saga, K_x}, series_index : {PyStr(ToStr(3))}, pubdate : {None},
   authors : {<<A_Al>>}, comicvine : {None, PyStr(ID_1), PyStr(ID_2)}]
RankTitles == {PyStr(<<>>), PyStr(T_3x), PyStr(T_Saga3)}
RankAuthors == {None, PyList(<<A_Al>>), PyList(<<A_AlB>>)}
RankIdentifiers == {PyDict([comicvine |-> ID_1]), PyDict([comicvine |-> ID_2, isbn |-> ISBN])}

InitRank ==
  /\ pc = "parse"
  /\ shape = [words |-> <<>>, issue |-> <<>>, subtitle |-> <<>>]
  /\ title \in RankTitles
  /\ issue_number = None
  /\ title_tokens = None
  /\ metadata = NoCandidate
  /\ authors \in RankAuthors
  /\ identifiers \in RankIdentifiers
  /\ similarity = None
  /\ score = Return(0)
  /\ candidates \in SeqsUpTo(RankCandidates, MaxCands) \ {<<>>}
  /\ keys = <<>>
  /\ ranked = <<>>

\* the key of the next candidate of the list; an exception ends the ranking
KeygenNext ==
  /\ pc = "parsed"
  /\ Len(keys) < Len(candidates)
  /\ LET md == candidates[Len(keys) + 1]
         k == keygen(md, title, authors, identifiers, issue_number,
                     title_tokens, similarity)
     IN /\ metadata' = md
        /\ score' = k
        /\ IF k.exc # ""
             THEN pc' = "raised" /\ keys' = keys
             ELSE pc' = pc /\ keys' = Append(keys, k.value)
  /\ UNCHANGED <<shape, title, issue_number, title_tokens, authors,
                 identifiers, similarity, candidates, ranked>>

\* sorted(range(n), key=keys): position i goes before position j when its
\* key is smaller, or equal and i is before j in the list
Before(ks, i, j) == ks[i] < ks[j] \/ (ks[i] = ks[j] /\ i < j)
StableSort(ks) ==
  [p \in DOMAIN ks |->
     CHOOSE i \in DOMAIN ks : Cardinality({j \in DOMAIN ks : Before(ks, j, i)}) = p - 1]

Sort ==
  /\ pc = "parsed"
  /\ Len(keys) = Len(candidates)
  /\ ranked' = StableSort(keys)
  /\ pc' = "ranked"
  /\ UNCHANGED <<shape, title, issue_number, title_tokens, metadata, authors,
                 identifiers, similarity, score, candidates, keys>>

NextRank == NormalisedTitle \/ KeygenNext \/ Sort

SpecRank == InitRank /\ [][NextRank]_vars

(***************************************************************************)
(* Properties of normalised_title (SpecParse).                             *)
(***************************************************************************)
\* The number an issue mark "#N" or "#N:" stands for.
MarkNumber(mark) == ToInt(Strip(mark, {"#", ":"}))

LowerAll(ws) == [i \in DOMAIN ws |-> Lower(ws[i])]

\* A title "<words> #<N>", possibly with a sub-title, of plain words.
HashForm(sh) ==
  /\ sh.issue # <<>>
  /\ sh.words # <<>>
  /\ \A i \in DOMAIN sh.words : sh.words[i] \in PlainWords

\* C2: for a title "<words> #<N>", with or without text after it,
\* normalised_title returns issue_number = N and title_tokens = the
\* lower-cased words before "#<N>", in order and each once.
C2_HashFormParsed ==
  (pc = "parsed" /\ HashForm(shape)) =>
     /\ PyEq(issue_number, PyInt(MarkNumber(shape.issue)))
     /\ title_tokens.v = LowerAll(shape.words)

\* The pre-processing the abbreviation rule describes: the periods of a run
\* of three or more groups "one word character and a period" are deleted.
RECURSIVE PeriodGroups(_, _)
PeriodGroups(s, i) ==
  IF i + 1 <= Len(s) /\ IsWordChar(s[i]) /\ s[i + 1] = "."
    THEN 1 + PeriodGroups(s, i + 2) ELSE 0
RECURSIVE CollapseAbbrev(_, _)
CollapseAbbrev(s, i) ==
  IF i > Len(s) THEN <<>>
  ELSE LET n == PeriodGroups(s, i) IN
    IF n >= 3
      THEN Remove(SubSeq(s, i, i + 2 * n - 1), ".") \o CollapseAbbrev(s, i + 2 * n)
      ELSE <<s[i]>> \o CollapseAbbrev(s, i + 1)

RECURSIVE DropVolumes(_)
DropVolumes(tokens) ==
  IF Len(tokens) = 0 THEN <<>>
  ELSE (IF VolumeMatch(Head(tokens)) THEN <<>> ELSE <<Head(tokens)>>)
         \o DropVolumes(Tail(tokens))

SignificantWords(t) == LowerAll(DropVolumes(get_title_tokens(CollapseAbbrev(t, 1))))

NoDigitToken(t) ==
  \A tok \in Range(get_title_tokens(CollapseAbbrev(t, 1))) :
     ~IsDigit(Strip(tok, {"#", ":"}))

\* C3: for a title without an all-digit token, normalised_title returns no
\* issue number, and title_tokens is the lower-cased tokenisation of the
\* title in which only the periods of abbreviation runs were deleted.
C3_NoDigitTitleParsed ==
  (pc = "parsed" /\ NoDigitToken(title.v)) =>
     /\ PyEq(issue_number, None)
     /\ title_tokens.v = SignificantWords(title.v)

\* The first number among the words, which has no '#' before it.
HasBareNumber(sh) == \E i \in DOMAIN sh.words : sh.words[i] = W_20

\* C8: an all-digit token without a '#' before it is kept as a word of
\* title_tokens and does not end the processing: the issue number is the one
\* of the "#<N>" token, and absent when the title has none.
C8_BareNumberIsWord ==
  (pc = "parsed" /\ HasBareNumber(shape)) =>
     /\ W_20 \in Range(title_tokens.v)
     /\ PyEq(issue_number,
             IF shape.issue = <<>> THEN None ELSE PyInt(MarkNumber(shape.issue)))

(***************************************************************************)
(* Properties of score_title (SpecScore).  The terms of the score are      *)
(* written here in closed form, from the values of the call.               *)
(***************************************************************************)
Scored == pc = "scored" /\ title.type = "str" /\ title_tokens.type = "list"

\* lowercase(series) + " #" + series_index
VolumeLabel == Lower(metadata.series) \o <<" ", "#">> \o metadata.series_index.v

TitleYear == ToInt(SubSeq(title.v, YearSearch(title.v, 1) + 1, YearSearch(title.v, 1) + 4))
YearTerm ==
  IF YearSearch(title.v, 1) > 0 /\ metadata.pubdate.type = "date"
    THEN Abs(metadata.pubdate.v - TitleYear) ELSE 0
LengthTerm == Abs(Len(VolumeLabel) - Len(title.v))
SimilarityTerm == IF similarity.type = "int" THEN 100 - similarity.v ELSE 0

AbsentCount(tokens) ==
  Cardinality({i \in DOMAIN tokens : ~IsSubstr(tokens[i], VolumeLabel)})

\* The score without the two terms that are about the issue number.
ScoreSansIssueTerms ==
  YearTerm + LengthTerm + 10 * AbsentCount(title_tokens.v)
    + Len(title_tokens.v) * SimilarityTerm

\* The candidate's series_index denotes the reference's issue number.
SameIssue == issue_number.type = "int" /\ ToInt(metadata.series_index.v) = issue_number.v

SeriesIndexInTitle == IsSubstr(metadata.series_index.v, title.v)
IssueNumberInTitle == IsSubstr(ToStr(issue_number.v), title.v)

\* C4: the 20-point issue-number-mismatch term is added, once per title
\* token, only when the candidate's series_index denotes another issue than
\* the reference issue_number; when the string series_index and the integer
\* issue_number denote the same number, the term contributes 0.
C4_MismatchTermOnlyOnMismatch ==
  (Scored /\ SameIssue) =>
     /\ score.exc = ""
     /\ score.value = ScoreSansIssueTerms
          + Len(title_tokens.v) * (IF SeriesIndexInTitle THEN 0 ELSE 10)

C7_MonotoneInAbsentTokens ==
  Scored =>
    \A other \in TokenLists :
       Len(other) = Len(title_tokens.v) =>
         LET s2 == score_title(metadata, title, issue_number, PyList(other), similarity)
         IN /\ score.exc = "" /\ s2.exc = ""
            /\ s2.value - score.value
                 = 10 * (AbsentCount(other) - AbsentCount(title_tokens.v))
            /\ (AbsentCount(other) >= AbsentCount(title_tokens.v)
                  => s2.value >= score.value)

\* C7 witness: a call with two tokens of which one is absent from the label,
\* so that token lists of the same length with fewer and with more absent
\* tokens exist.
C7_Witness ==
  /\ Scored
  /\ Len(title_tokens.v) = 2
  /\ AbsentCount(title_tokens.v) = 1
  /\ score.exc = "" /\ score.value > 0

\* C9 as claimed: the per-token 10-point "issue number not in title" term
\* is added exactly when the rendered reference issue_number is not a
\* substring of the reference title, whatever the candidate's series_index.
C9_PenaltyFromReference ==
  (Scored /\ issue_number.type = "int") =>
     /\ score.exc = ""
     /\ score.value = ScoreSansIssueTerms
          + Len(title_tokens.v) * ((IF PyNe(metadata.series_index, issue_number) THEN 20 ELSE 0)
                                     + (IF IssueNumberInTitle THEN 0 ELSE 10))

\* C9 amended: the per-token 10-point term is added exactly when the
\* candidate's series_index is not a substring of the reference title; the
\* reference issue_number does not decide it.
C9_PenaltyFromCandidate ==
  Scored =>
     /\ score.exc = ""
     /\ score.value = ScoreSansIssueTerms
          + Len(title_tokens.v) * ((IF PyNe(metadata.series_index, issue_number) THEN 20 ELSE 0)
                                     + (IF SeriesIndexInTitle THEN 0 ELSE 10))

\* C9 witness: a scored call whose reference issue number (3) is in the
\* title while the candidate's series_index (4) is not.
C9_Witness ==
  /\ Scored
  /\ Len(title_tokens.v) > 0
  /\ issue_number.type = "int"
  /\ IssueNumberInTitle
  /\ ~SeriesIndexInTitle
  /\ score.exc = ""

(***************************************************************************)
(* Properties of keygen (SpecKeygen).                                      *)
(***************************************************************************)
\* The candidate md and the reference share a non-empty 'comicvine'
\* identifier.
SharesIdentifier(md) ==
  /\ md.comicvine.type = "str"
  /\ md.comicvine.v # <<>>
  /\ identifiers.type = "dict"
  /\ "comicvine" \in DOMAIN identifiers.v
  /\ identifiers.v["comicvine"] = md.comicvine.v

\* The entries of the authors sequence that are no members of the
\* candidate's authors.
MissingAuthors(md) ==
  IF authors.type = "list"
    THEN Cardinality({i \in DOMAIN authors.v :
                        \A k \in DOMAIN md.authors : md.authors[k] # authors.v[i]})
    ELSE 0

TitleGiven == title.type = "str" /\ title.v # <<>>

\* C1: keygen returns exactly 0 for a candidate whose 'comicvine' identifier
\* is present, non-empty and equal to the reference's, whatever the title,
\* the authors and the other arguments are.
C1_IdentifierMatchIsZero ==
  (pc = "keyed" /\ SharesIdentifier(metadata)) => score = Return(0)

\* C1 witness: the identifiers match in a call whose title and authors
\* would give a positive score, and one in which score_title would raise.
C1_Witness ==
  /\ pc = "keyed"
  /\ SharesIdentifier(metadata)
  /\ TitleGiven
  /\ MissingAuthors(metadata) > 0
  /\ score_title(metadata, title, issue_number, title_tokens, similarity).exc # ""

\* C10: when the identifier rule does not apply, keygen returns
\* score_title(...) if a title is given, else 0, plus 10 for every entry of
\* the authors sequence that is no exact member of candidate.authors; an
\* exception of score_title is the outcome of keygen.
C10_ScorePlusAuthors ==
  (pc = "keyed" /\ ~SharesIdentifier(metadata)) =>
     LET st == IF TitleGiven
                 THEN score_title(metadata, title, issue_number, title_tokens, similarity)
                 ELSE Return(0)
     IN IF st.exc # "" THEN score = st
        ELSE score = Return(st.value + 10 * MissingAuthors(metadata))

\* C10 witness: the supplied identifiers hold no 'comicvine' key, a title is
\* given, and an author of the reference is part of a candidate author's
\* name without being one of the candidate's authors.
C10_Witness ==
  /\ pc = "keyed"
  /\ identifiers.type = "dict"
  /\ DOMAIN identifiers.v = {"isbn"}
  /\ metadata.comicvine.type = "str"
  /\ TitleGiven
  /\ authors = PyList(<<A_Al, A_AlB>>)
  /\ metadata.authors = <<A_AlB>>
  /\ score.exc = "" /\ score.value >= 10

(***************************************************************************)
(* Properties of the ranking (SpecRank).                                   *)
(***************************************************************************)
\* The position of candidate i in the sorted list.
PositionOf(i) == CHOOSE p \in DOMAIN ranked : ranked[p] = i

\* C6 as claimed: the sort places a candidate whose 'comicvine' identifier
\* equals the reference's before every candidate whose identifier does not,
\* whatever the catalog order.
C6_MatchBeforeEveryOther ==
  pc = "ranked" =>
    \A i, j \in DOMAIN candidates :
       (SharesIdentifier(candidates[i]) /\ ~SharesIdentifier(candidates[j]))
          => PositionOf(i) < PositionOf(j)

\* C6 amended: no key is negative, the key of a candidate with the
\* reference's identifier is 0, and the sort places such a candidate before
\* every other candidate whose key is greater than 0.
C6_MatchBeforePositiveKeys ==
  pc = "ranked" =>
    /\ \A j \in DOMAIN candidates : keys[j] >= 0
    /\ \A i, j \in DOMAIN candidates :
         (SharesIdentifier(candidates[i]) /\ ~SharesIdentifier(candidates[j])) =>
            /\ keys[i] = 0
            /\ keys[j] > 0 => PositionOf(i) < PositionOf(j)

\* C6 witness: the catalog lists a candidate with another identifier and a
\* positive key first, and the sort moves the matching candidate before it.
C6_Witness ==
  /\ pc = "ranked"
  /\ Len(candidates) = 2
  /\ ~SharesIdentifier(candidates[1])
  /\ SharesIdentifier(candidates[2])
  /\ keys[1] > 0
  /\ ranked = <<2, 1>>

=============================================================================
